---- MODULE Spec2Model ----
(***************************************************************************)
(* A model of main.py: a FastAPI application with four GET handlers.       *)
(*   /                 read_root                                           *)
(*   /api/hello        hello                                               *)
(*   /test             test_database   (the database probe)                *)
(*   /api/export/pptx  export_pptx -> create_pptx_bytes -> build_deck_...  *)
(* Every request is a process of its own, with the handler's local         *)
(* variables (response, deck, prs, bio, the caught exception) and a        *)
(* program counter.  What a handler reads from outside the program (the    *)
(* import of the database module, the handle's name, the collection        *)
(* listing, the environment variables, the document library) is chosen     *)
(* nondeterministically at the step that reads it and remembered in obs.   *)
(*                                                                         *)
(* The TLA+ lexer accepts ASCII only, so the four non-ASCII symbols of the *)
(* source's string literals are written as ASCII marks: see OK_MARK,       *)
(* NO_MARK, WARN_MARK and ARROW.                                           *)
(***************************************************************************)
EXTENDS Integers, Sequences, FiniteSets, TLC

----------------------------------------------------------------------------
(* Bounds of the model. *)

\* number of requests (each one an invocation of a handler); they run interleaved
MaxRequests == 2
\* the longest collection listing the database returns
MaxColl == 12
\* the longest outline handed to the exporter, counted in content sections
MaxSections == 2
\* the longest bullet list or flow of a section of such an outline
MaxItems == 2

(* Program constants. *)

\* collections[:10]
SliceLimit == 10
\* str(e)[:50]
MsgLimit == 50
\* PptxPresentation().slide_layouts[0] and [1]
TitleLayout == 0
ContentLayout == 1

Requests == 1..MaxRequests

----------------------------------------------------------------------------
(* Strings of the source. *)

\* U+2705 (white heavy check mark)
OK_MARK == "(ok)"
\* U+274C (cross mark)
NO_MARK == "(x)"
\* U+26A0 U+FE0F (warning sign)
WARN_MARK == "(!)"
\* " " U+2192 " " (rightwards arrow between spaces)
ARROW == " -> "

\* Python's None in a field of the response (JSON null)
None == "None"

MSG_ROOT == "Hello from FastAPI Backend!"
MSG_HELLO == "Hello from the backend API!"
BACKEND_RUNNING == OK_MARK \o " Running"
DB_NOT_AVAILABLE == NO_MARK \o " Not Available"
DB_AVAILABLE == OK_MARK \o " Available"
DB_CONFIGURED == OK_MARK \o " Configured"
DB_CONNECTED == OK_MARK \o " Connected"
DB_WORKING == OK_MARK \o " Connected & Working"
DB_CONNECTED_ERROR == WARN_MARK \o "  Connected but Error: "
DB_NOT_INITIALIZED == WARN_MARK \o "  Available but not initialized"
DB_NOT_FOUND == NO_MARK \o " Database module not found (run enable-database first)"
DB_ERROR == NO_MARK \o " Error: "
NOT_CONNECTED == "Not Connected"
CONNECTED == "Connected"
ENV_SET == OK_MARK \o " Set"
ENV_NOT_SET == NO_MARK \o " Not Set"
PPTX_MEDIA_TYPE == "application/vnd.openxmlformats-officedocument.presentationml.presentation"
PPTX_FILENAME == "AI_Study_Bot_Presentation.pptx"
DEFAULT_TITLE == "AI Study Bot"
DEFAULT_SUBTITLE == "Intelligent Assistant for Learning"

----------------------------------------------------------------------------
(* Python's operations on strings, lists, dicts and exceptions. *)

Min(a, b) == IF a < b THEN a ELSE b

\* s[:n] of a string or a list
Slice(s, n) == IF Len(s) <= n THEN s ELSE SubSeq(s, 1, n)

\* sub in s, for strings
Contains(s, sub) ==
    \E i \in 1..(Len(s) - Len(sub) + 1) : SubSeq(s, i, i + Len(sub) - 1) = sub

\* s.startswith(pre)
StartsWith(s, pre) == Len(s) >= Len(pre) /\ SubSeq(s, 1, Len(pre)) = pre

\* d.get(key, default) of a dict
Get(d, key, default) == IF key \in DOMAIN d THEN d[key] ELSE default

\* d.get(key): None when the key is absent; here the empty list stands for
\* None, which is as falsy as None is and is only ever tested for truth
GetList(d, key) == Get(d, key, <<>>)

\* the truth value of a list or a string
Truthy(s) == Len(s) > 0

\* os.getenv returns None or the variable's string value
EnvUnset == [isNone |-> TRUE]
EnvValue(s) == [isNone |-> FALSE, val |-> s]

\* the truth value of what os.getenv returns: None and "" are both false
EnvTruthy(v) == ~v.isNone /\ Truthy(v.val)

\* Python's isinstance on the classes of the exceptions that are raised
\* (ImportError, ModuleNotFoundError, RuntimeError, TypeError, IndexError),
\* all of them subclasses of Exception
Parents(cls) ==
    CASE cls = "ModuleNotFoundError" -> {"ModuleNotFoundError", "ImportError", "Exception"}
      [] OTHER -> {cls, "Exception"}
IsInstance(e, cls) == cls \in Parents(e.cls)

Exc(cls, msg) == [cls |-> cls, msg |-> msg]
NoExc == [cls |-> "none", msg |-> ""]

\* the TypeError of None[:10]
NOT_SUBSCRIPTABLE == "'NoneType' object is not subscriptable"
\* the IndexError of [][0]
INDEX_OUT_OF_RANGE == "list index out of range"

----------------------------------------------------------------------------
(* What the handlers read from outside the program. *)

Ten == "0123456789"
Msg49 == Ten \o Ten \o Ten \o Ten \o "012345678"
Msg50 == Msg49 \o "9"
Msg51 == Msg50 \o "X"
Msg60 == Msg50 \o "XXXXXXXXXX"

\* the messages of the exceptions the probe meets when it runs alone
ProbeMsgs == {"", "boom", Msg49, Msg50, Msg51, Msg60}
\* the messages of the exceptions the requests of the server meet
ServerMsgs == {Msg51}
\* the values of an environment variable
ProbeEnv == {EnvUnset, EnvValue(""), EnvValue("mongodb://localhost:27017")}
ServerEnv == {EnvUnset, EnvValue("mongodb://localhost:27017")}

\* the value of db.name
DB_NAME == "appdb"

\* a listing of n collection names
Listing(n) == [i \in 1..n |-> "c" \o ToString(i)]
ProbeListings == {Listing(n) : n \in {0, 1, SliceLimit - 1, SliceLimit, SliceLimit + 1, MaxColl}}
ServerListings == {Listing(MaxColl)}

\* from database import db: ImportError (the module is missing), any other
\* exception raised by the module's code, or a value of db: None or a handle
ImportOutcomes(msgs) ==
    {[kind |-> "raises", exc |-> Exc(c, "No module named 'database'")] :
        c \in {"ImportError", "ModuleNotFoundError"}}
    \cup {[kind |-> "raises", exc |-> Exc("RuntimeError", m)] : m \in msgs}
    \cup {[kind |-> "ok", db |-> d] : d \in {"None", "handle"}}

\* hasattr(db, 'name') and db.name: hasattr is False when reading the
\* attribute raises AttributeError, and lets any other exception through
NameOutcomes(msgs) ==
    {[kind |-> "absent"], [kind |-> "value", name |-> DB_NAME]}
    \cup {[kind |-> "raises", exc |-> Exc("RuntimeError", m)] : m \in msgs}

\* db.list_collection_names(): a list, an exception, or a value that
\* cannot be sliced (None)
ListOutcomes(msgs, listings) ==
    {[kind |-> "ok", names |-> l] : l \in listings}
    \cup {[kind |-> "raises", exc |-> Exc("RuntimeError", m)] : m \in msgs}
    \cup {[kind |-> "unsliceable", exc |-> Exc("TypeError", NOT_SUBSCRIPTABLE)]}

\* a call into the document library returns or raises
LibOutcomes(msgs) ==
    {[kind |-> "ok"]} \cup {[kind |-> "raises", exc |-> Exc("RuntimeError", m)] : m \in msgs}

\* what the probe running alone can read
ProbeImports == ImportOutcomes(ProbeMsgs)
ProbeNames == NameOutcomes(ProbeMsgs)
ProbeLists == ListOutcomes(ProbeMsgs, ProbeListings)

\* what the requests of the server can read
ServerImports ==
    {o \in ImportOutcomes(ServerMsgs) : o.kind = "raises" => o.exc.cls # "ModuleNotFoundError"}
ServerNames == {o \in NameOutcomes(ServerMsgs) : o.kind # "absent"}
ServerLists == ListOutcomes(ServerMsgs, ServerListings)
ServerLibs == LibOutcomes(ServerMsgs)

Unread == [kind |-> "unread"]
NoObs == [import |-> Unread, name |-> Unread, list |-> Unread,
          url |-> Unread, dbname |-> Unread, lib |-> Unread]

----------------------------------------------------------------------------
(* State. *)

VARIABLES
    pc,         \* pc[r]: where request r is in its handler
    endpoint,   \* endpoint[r]: the route request r was dispatched to
    obs,        \* obs[r]: what r has read from outside the program
    response,   \* response[r]: test_database's local dict
    exc,        \* exc[r]: the exception in flight or caught (e)
    deck,       \* deck[r]: create_pptx_bytes's outline
    prs,        \* prs[r]: the presentation being built, a sequence of slides
    bio,        \* bio[r]: the io.BytesIO buffer, its content and position
    result,     \* result[r]: the HTTP response of r
    seen        \* history: seen[r] says that an export had been answered with
                \* status 500 when r was dispatched

vars == <<pc, endpoint, obs, response, exc, deck, prs, bio, result, seen>>

NoResponse == [backend |-> None, database |-> None, database_url |-> None,
               database_name |-> None, connection_status |-> None, collections |-> <<>>]
NoBio == [data |-> <<>>, pos |-> 0]
NoResult == [status |-> 0]

Init ==
    /\ pc = [r \in Requests |-> "idle"]
    /\ endpoint = [r \in Requests |-> "none"]
    /\ obs = [r \in Requests |-> NoObs]
    /\ response = [r \in Requests |-> NoResponse]
    /\ exc = [r \in Requests |-> NoExc]
    /\ deck = [r \in Requests |-> <<>>]
    /\ prs = [r \in Requests |-> <<>>]
    /\ bio = [r \in Requests |-> NoBio]
    /\ result = [r \in Requests |-> NoResult]
    /\ seen = [r \in Requests |-> FALSE]

----------------------------------------------------------------------------
(* The framework hands a request to its handler. *)

Routes == {"root", "hello", "test", "export"}

\* request q was an export and was answered with status 500
FailedExport(q) == pc[q] = "done" /\ endpoint[q] = "export" /\ result[q].status = 500

Dispatch(r, route) ==
    /\ pc[r] = "idle"
    /\ route \in Routes
    /\ pc' = [pc EXCEPT ![r] = route]
    /\ endpoint' = [endpoint EXCEPT ![r] = route]
    /\ seen' = [seen EXCEPT ![r] = \E q \in Requests : FailedExport(q)]
    /\ UNCHANGED <<obs, response, exc, deck, prs, bio, result>>

\* a handler returns a dict: FastAPI answers 200 with the dict as JSON
JsonOk(body) == [status |-> 200, json |-> body]

\* a variant of JsonError without status_code=500
JsonError_NoStatus(e) == [status |-> 200, json |-> [error |-> e.msg]]

\* JSONResponse(status_code=500, content={"error": str(e)})
JsonError(e) == [status |-> 500, json |-> [error |-> e.msg]]

----------------------------------------------------------------------------
(* read_root and hello *)

ReadRoot(r) ==
    /\ pc[r] = "root"
    /\ result' = [result EXCEPT ![r] = JsonOk([message |-> MSG_ROOT])]
    /\ pc' = [pc EXCEPT ![r] = "done"]
    /\ UNCHANGED <<endpoint, obs, response, exc, deck, prs, bio, seen>>

Hello(r) ==
    /\ pc[r] = "hello"
    /\ result' = [result EXCEPT ![r] = JsonOk([message |-> MSG_HELLO])]
    /\ pc' = [pc EXCEPT ![r] = "done"]
    /\ UNCHANGED <<endpoint, obs, response, exc, deck, prs, bio, seen>>

----------------------------------------------------------------------------
(* test_database *)

InitialResponse ==
    [backend |-> BACKEND_RUNNING, database |-> DB_NOT_AVAILABLE,
     database_url |-> None, database_name |-> None,
     connection_status |-> NOT_CONNECTED, collections |-> <<>>]

\* a variant of Truncated that forgets the [:50]
Truncated_NoLimit(e) == e.msg

\* f"... {str(e)[:50]}"
Truncated(e) == Slice(e.msg, MsgLimit)

\* lines 28-35: the response starts as "not available, not connected"
TestInit(r) ==
    /\ pc[r] = "test"
    /\ response' = [response EXCEPT ![r] = InitialResponse]
    /\ pc' = [pc EXCEPT ![r] = "t_import"]
    /\ UNCHANGED <<endpoint, obs, exc, deck, prs, bio, result, seen>>

\* lines 39-43 and 54-55: the import, and the test of db against None
TestImport(r, imports) ==
    /\ pc[r] = "t_import"
    /\ \E o \in imports :
        /\ obs' = [obs EXCEPT ![r].import = o]
        /\ IF o.kind = "raises"
           THEN /\ exc' = [exc EXCEPT ![r] = o.exc]
                /\ pc' = [pc EXCEPT ![r] = "t_except"]
                /\ UNCHANGED response
           ELSE IF o.db # "None"
           THEN /\ response' = [response EXCEPT ![r].database = DB_AVAILABLE,
                                                 ![r].database_url = DB_CONFIGURED]
                /\ pc' = [pc EXCEPT ![r] = "t_name"]
                /\ UNCHANGED exc
           ELSE /\ response' = [response EXCEPT ![r].database = DB_NOT_INITIALIZED]
                /\ pc' = [pc EXCEPT ![r] = "t_env_url"]
                /\ UNCHANGED exc
    /\ UNCHANGED <<endpoint, deck, prs, bio, result, seen>>

\* a variant of TestName with lines 44 and 45 exchanged: the status is set
\* to "Connected" before the name is read
TestName_StatusFirst(r, names) ==
    /\ pc[r] = "t_name"
    /\ \E o \in names :
        /\ obs' = [obs EXCEPT ![r].name = o]
        /\ IF o.kind = "raises"
           THEN /\ exc' = [exc EXCEPT ![r] = o.exc]
                /\ pc' = [pc EXCEPT ![r] = "t_except"]
                /\ response' = [response EXCEPT ![r].connection_status = CONNECTED]
           ELSE /\ response' = [response EXCEPT
                     ![r].database_name = IF o.kind = "value" THEN o.name ELSE DB_CONNECTED,
                     ![r].connection_status = CONNECTED]
                /\ pc' = [pc EXCEPT ![r] = "t_list"]
                /\ UNCHANGED exc
    /\ UNCHANGED <<endpoint, deck, prs, bio, result, seen>>

\* lines 44-45: db.name if hasattr(db, 'name') else the "Connected" text
TestName(r, names) ==
    /\ pc[r] = "t_name"
    /\ \E o \in names :
        /\ obs' = [obs EXCEPT ![r].name = o]
        /\ IF o.kind = "raises"
           THEN /\ exc' = [exc EXCEPT ![r] = o.exc]
                /\ pc' = [pc EXCEPT ![r] = "t_except"]
                /\ UNCHANGED response
           ELSE /\ response' = [response EXCEPT
                     ![r].database_name = IF o.kind = "value" THEN o.name ELSE DB_CONNECTED,
                     ![r].connection_status = CONNECTED]
                /\ pc' = [pc EXCEPT ![r] = "t_list"]
                /\ UNCHANGED exc
    /\ UNCHANGED <<endpoint, deck, prs, bio, result, seen>>

\* lines 48-51: the inner try
TestList(r, lists) ==
    /\ pc[r] = "t_list"
    /\ \E o \in lists :
        /\ obs' = [obs EXCEPT ![r].list = o]
        /\ IF o.kind = "ok"
           THEN /\ response' = [response EXCEPT
                     ![r].collections = Slice(o.names, SliceLimit),
                     ![r].database = DB_WORKING]
                /\ pc' = [pc EXCEPT ![r] = "t_env_url"]
                /\ UNCHANGED exc
           ELSE /\ exc' = [exc EXCEPT ![r] = o.exc]
                /\ pc' = [pc EXCEPT ![r] = "t_inner_except"]
                /\ UNCHANGED response
    /\ UNCHANGED <<endpoint, deck, prs, bio, result, seen>>

\* lines 52-53: except Exception as e, of the inner try
TestInnerExcept(r) ==
    /\ pc[r] = "t_inner_except"
    /\ IF IsInstance(exc[r], "Exception")
       THEN /\ response' = [response EXCEPT
                 ![r].database = DB_CONNECTED_ERROR \o Truncated(exc[r])]
            /\ pc' = [pc EXCEPT ![r] = "t_env_url"]
       ELSE /\ pc' = [pc EXCEPT ![r] = "t_except"]
            /\ UNCHANGED response
    /\ UNCHANGED <<endpoint, obs, exc, deck, prs, bio, result, seen>>

\* a variant of TestExcept without the second clause, except Exception
TestExcept_ImportErrorOnly(r) ==
    /\ pc[r] = "t_except"
    /\ IF IsInstance(exc[r], "ImportError")
       THEN /\ response' = [response EXCEPT ![r].database = DB_NOT_FOUND]
            /\ pc' = [pc EXCEPT ![r] = "t_env_url"]
            /\ UNCHANGED result
       ELSE /\ result' = [result EXCEPT ![r] = [status |-> 500, raised |-> exc[r]]]
            /\ pc' = [pc EXCEPT ![r] = "done"]
            /\ UNCHANGED response
    /\ UNCHANGED <<endpoint, obs, exc, deck, prs, bio, seen>>

\* a variant of TestExcept with the two clauses in the other order, so that
\* except Exception catches the ImportError too
TestExcept_ExceptionFirst(r) ==
    /\ pc[r] = "t_except"
    /\ IF IsInstance(exc[r], "Exception")
       THEN /\ response' = [response EXCEPT ![r].database = DB_ERROR \o Slice(exc[r].msg, MsgLimit)]
            /\ pc' = [pc EXCEPT ![r] = "t_env_url"]
            /\ UNCHANGED result
       ELSE /\ result' = [result EXCEPT ![r] = [status |-> 500, raised |-> exc[r]]]
            /\ pc' = [pc EXCEPT ![r] = "done"]
            /\ UNCHANGED response
    /\ UNCHANGED <<endpoint, obs, exc, deck, prs, bio, seen>>

\* lines 57-60: except ImportError, then except Exception as e; an
\* exception neither clause catches leaves the handler
TestExcept(r) ==
    /\ pc[r] = "t_except"
    /\ IF IsInstance(exc[r], "ImportError")
       THEN /\ response' = [response EXCEPT ![r].database = DB_NOT_FOUND]
            /\ pc' = [pc EXCEPT ![r] = "t_env_url"]
            /\ UNCHANGED result
       ELSE IF IsInstance(exc[r], "Exception")
       THEN /\ response' = [response EXCEPT ![r].database = DB_ERROR \o Truncated(exc[r])]
            /\ pc' = [pc EXCEPT ![r] = "t_env_url"]
            /\ UNCHANGED result
       ELSE /\ result' = [result EXCEPT ![r] = [status |-> 500, raised |-> exc[r]]]
            /\ pc' = [pc EXCEPT ![r] = "done"]
            /\ UNCHANGED response
    /\ UNCHANGED <<endpoint, obs, exc, deck, prs, bio, seen>>

\* "... Set" if os.getenv(...) else "... Not Set"
EnvFlag(v) == IF EnvTruthy(v) THEN ENV_SET ELSE ENV_NOT_SET

\* line 64
TestEnvUrl(r, env) ==
    /\ pc[r] = "t_env_url"
    /\ \E v \in env :
        /\ obs' = [obs EXCEPT ![r].url = [kind |-> "read", value |-> v]]
        /\ response' = [response EXCEPT ![r].database_url = EnvFlag(v)]
    /\ pc' = [pc EXCEPT ![r] = "t_env_name"]
    /\ UNCHANGED <<endpoint, exc, deck, prs, bio, result, seen>>

\* lines 65-67
TestEnvName(r, env) ==
    /\ pc[r] = "t_env_name"
    /\ \E v \in env :
        /\ obs' = [obs EXCEPT ![r].dbname = [kind |-> "read", value |-> v]]
        /\ response' = [response EXCEPT ![r].database_name = EnvFlag(v)]
        /\ result' = [result EXCEPT ![r] = JsonOk(response'[r])]
    /\ pc' = [pc EXCEPT ![r] = "done"]
    /\ UNCHANGED <<endpoint, exc, deck, prs, bio, seen>>

----------------------------------------------------------------------------
(* The probe running alone, over all it can read. *)

ProbeNext ==
    \/ Dispatch(1, "test")
    \/ TestInit(1)
    \/ TestImport(1, ProbeImports)
    \/ TestName(1, ProbeNames)
    \/ TestList(1, ProbeLists)
    \/ TestInnerExcept(1)
    \/ TestExcept(1)
    \/ TestEnvUrl(1, ProbeEnv)
    \/ TestEnvName(1, ProbeEnv)

ProbeSpec == Init /\ [][ProbeNext]_vars

----------------------------------------------------------------------------
(* build_deck_content: the fixed outline *)

build_deck_content ==
    <<
        [type |-> "title",
         title |-> "AI Study Bot",
         subtitle |-> "Intelligent Assistant for Learning"],
        [title |-> "Introduction",
         points |-> <<
            "An AI-powered assistant that helps students learn faster and smarter",
            "Provides instant explanations, study aids, and guidance across subjects",
            "Combines NLP, retrieval, and personalization to support learning goals">>],
        [title |-> "Problem Statement",
         points |-> <<
            "Information overload across textbooks, notes, and the web",
            "Lack of tailored guidance for different learners",
            "Manual notes are time-consuming and hard to organize",
            "Revising efficiently is challenging without structure">>],
        [title |-> "Objectives",
         points |-> <<
            "Instant explanations on-demand",
            "Automatic summaries of long content",
            "Personalized learning paths",
            "Quizzes to test understanding",
            "Progress tracking and analytics">>],
        [title |-> "System Architecture",
         points |-> <<
            "User Interface",
            "NLP Engine",
            "Knowledge Base",
            "Recommendation Module",
            "Feedback Loop">>],
        [title |-> "Workflow",
         flow |-> <<
            "User query",
            "NLP",
            "Retrieval",
            "Response",
            "Personalized suggestion">>],
        [title |-> "Key Features",
         points |-> <<
            "Doubt solving and instant Q&A",
            "Summarization of lectures and notes",
            "Quiz generation with adaptive difficulty",
            "Progress tracking dashboards",
            "Adaptive learning recommendations">>],
        [title |-> "Use Cases",
         points |-> <<
            "Exam preparation",
            "Quick revision sessions",
            "Assignments and research support",
            "Self-study and continuous learning">>],
        [title |-> "Technology Stack",
         points |-> <<
            "Python for backend logic",
            "Modern NLP models (LLMs, embeddings)",
            "Vector databases for retrieval",
            "Recommendation algorithms",
            "Web frameworks for UI + APIs">>],
        [title |-> "Benefits",
         points |-> <<
            "Deeper understanding with timely help",
            "Reduced study time through automation",
            "24/7 assistance and motivation">>],
        [title |-> "Limitations",
         points |-> <<
            "May produce inaccuracies; verification needed",
            "Requires regular data updates",
            "Possible misunderstandings of context",
            "Internet connectivity required">>],
        [title |-> "Future Enhancements",
         points |-> <<
            "Voice interaction and speech synthesis",
            "Multimodal input (images, PDFs, whiteboards)",
            "Offline mode for core features",
            "Integration with LMS platforms">>],
        [title |-> "Conclusion",
         points |-> <<
            "AI Study Bot streamlines learning, clarifies doubts, and adapts to each student",
            "Boosts outcomes through explanations, quizzes, and progress insight",
            "A reliable companion for effective, continuous learning">>]
    >>

----------------------------------------------------------------------------
(* The document library: slides, text frames, saving. *)

\* a paragraph of a text frame
Paragraph(text) == [text |-> text, level |-> 0]

\* tf.clear() leaves the text frame with one empty paragraph
ClearedFrame == <<Paragraph("")>>

\* p_run = tf.add_paragraph() if i > 0 else tf.paragraphs[0], then
\* p_run.text = text and p_run.level = 0, for the i-th item (from 0)
SetRun(tf, i, text) ==
    LET tf1 == IF i > 0 THEN Append(tf, Paragraph("")) ELSE tf
        at == IF i > 0 THEN Len(tf1) ELSE 1
    IN  [tf1 EXCEPT ![at] = Paragraph(text)]

\* lines 179-182: for i, p in enumerate(points), from the i-th on
RECURSIVE RenderPoints(_, _, _)
RenderPoints(tf, points, i) ==
    IF i >= Len(points) THEN tf
    ELSE RenderPoints(SetRun(tf, i, points[i + 1]), points, i + 1)

\* a variant of RenderFlow that appends the arrow to the last step too
RECURSIVE RenderFlow_TrailingArrow(_, _, _)
RenderFlow_TrailingArrow(tf, flow, i) ==
    IF i >= Len(flow) THEN tf
    ELSE LET arrow == IF i < Len(flow) THEN ARROW ELSE ""
         IN  RenderFlow_TrailingArrow(SetRun(tf, i, flow[i + 1] \o arrow), flow, i + 1)

\* lines 184-188: for i, step in enumerate(flow), from the i-th on
RECURSIVE RenderFlow(_, _, _)
RenderFlow(tf, flow, i) ==
    IF i >= Len(flow) THEN tf
    ELSE LET arrow == IF i < Len(flow) - 1 THEN ARROW ELSE ""
         IN  RenderFlow(SetRun(tf, i, flow[i + 1] \o arrow), flow, i + 1)

\* a variant of RenderBody that tests the flow before the points
RenderBody_FlowFirst(section) ==
    LET points == GetList(section, "points")
        flow == GetList(section, "flow")
    IN  IF Truthy(flow) THEN RenderFlow(ClearedFrame, flow, 0)
        ELSE IF Truthy(points) THEN RenderPoints(ClearedFrame, points, 0)
        ELSE [ClearedFrame EXCEPT ![1].text = ""]

\* lines 171-190: the body of a content slide
RenderBody(section) ==
    LET points == GetList(section, "points")
        flow == GetList(section, "flow")
    IN  IF Truthy(points) THEN RenderPoints(ClearedFrame, points, 0)
        ELSE IF Truthy(flow) THEN RenderFlow(ClearedFrame, flow, 0)
        ELSE [ClearedFrame EXCEPT ![1].text = ""]

\* lines 160-163
TitleSlide(first) ==
    [layout |-> TitleLayout,
     title |-> Get(first, "title", DEFAULT_TITLE),
     subtitle |-> Get(first, "subtitle", DEFAULT_SUBTITLE)]

\* lines 169-190
ContentSlide(section) ==
    [layout |-> ContentLayout,
     title |-> Get(section, "title", ""),
     body |-> RenderBody(section)]

\* a variant of AddContentSlides that walks deck[:-1], not deck[1:]
RECURSIVE AddContentSlides_FromFirst(_, _, _)
AddContentSlides_FromFirst(slides, sections, n) ==
    IF n = 0 THEN slides
    ELSE AddContentSlides_FromFirst(
            Append(slides, ContentSlide(sections[Len(sections) - n])), sections, n - 1)

\* lines 168-190: for section in deck[1:], for the last n records of the deck
RECURSIVE AddContentSlides(_, _, _)
AddContentSlides(slides, sections, n) ==
    IF n = 0 THEN slides
    ELSE AddContentSlides(
            Append(slides, ContentSlide(sections[Len(sections) - n + 1])), sections, n - 1)

\* prs.save writes the package: a part that lists the slides, then one part
\* for every slide
Serialize(slides) ==
    <<[part |-> "presentation", slides |-> Len(slides)]>>
    \o [i \in 1..Len(slides) |-> [part |-> "slide", slide |-> slides[i]]]

\* what a reader of the bytes finds: the slides, or nothing when the bytes
\* are not a whole package
Parse(bytes) ==
    IF /\ Len(bytes) >= 1
       /\ bytes[1].part = "presentation"
       /\ bytes[1].slides = Len(bytes) - 1
    THEN [i \in 1..(Len(bytes) - 1) |-> bytes[i + 1].slide]
    ELSE <<>>

\* reading a buffer from its position to its end
ReadFrom(b) == SubSeq(b.data, b.pos + 1, Len(b.data))

----------------------------------------------------------------------------
(* create_pptx_bytes and export_pptx *)

\* exception e leaves create_pptx_bytes: its frame, with deck, prs and bio,
\* is dropped, and export_pptx's except clause is next
Leave(r, e) ==
    /\ exc' = [exc EXCEPT ![r] = e]
    /\ deck' = [deck EXCEPT ![r] = <<>>]
    /\ prs' = [prs EXCEPT ![r] = <<>>]
    /\ bio' = [bio EXCEPT ![r] = NoBio]
    /\ pc' = [pc EXCEPT ![r] = "x_except"]

\* the library raised in the named call
Raise(r, o, call) ==
    /\ obs' = [obs EXCEPT ![r].lib = [kind |-> "raises", call |-> call, exc |-> o.exc]]
    /\ Leave(r, o.exc)

\* lines 154-155: the outline d and an empty presentation
ExportBuild(r, d, libs) ==
    /\ pc[r] = "export"
    /\ \E o \in libs :
        IF o.kind = "raises"
        THEN Raise(r, o, "Presentation")
        ELSE /\ deck' = [deck EXCEPT ![r] = d]
             /\ prs' = [prs EXCEPT ![r] = <<>>]
             /\ pc' = [pc EXCEPT ![r] = "x_title"]
             /\ UNCHANGED <<exc, obs, bio>>
    /\ UNCHANGED <<endpoint, response, result, seen>>

\* lines 158-163: deck[0] raises IndexError on an empty outline
ExportTitleSlide(r, libs) ==
    /\ pc[r] = "x_title"
    /\ IF Len(deck[r]) = 0
       THEN /\ obs' = [obs EXCEPT ![r].lib = [kind |-> "empty"]]
            /\ Leave(r, Exc("IndexError", INDEX_OUT_OF_RANGE))
       ELSE \E o \in libs :
            IF o.kind = "raises"
            THEN Raise(r, o, "add_slide")
            ELSE /\ prs' = [prs EXCEPT ![r] = Append(prs[r], TitleSlide(deck[r][1]))]
                 /\ pc' = [pc EXCEPT ![r] = "x_content"]
                 /\ UNCHANGED <<exc, obs, deck, bio>>
    /\ UNCHANGED <<endpoint, response, result, seen>>

\* lines 166-190: the loop over deck[1:]; the library may raise at any of
\* its slides
ExportContentSlides(r, libs) ==
    /\ pc[r] = "x_content"
    /\ \/ /\ prs' = [prs EXCEPT ![r] = AddContentSlides(prs[r], deck[r], Len(deck[r]) - 1)]
          /\ pc' = [pc EXCEPT ![r] = "x_save"]
          /\ UNCHANGED <<exc, obs, deck, bio>>
       \/ \E o \in libs :
          /\ Len(deck[r]) > 1
          /\ o.kind = "raises"
          /\ Raise(r, o, "add_slide")
    /\ UNCHANGED <<endpoint, response, result, seen>>

\* lines 192-193: a new buffer, and prs.save(bio), which leaves the
\* position at the end of what it wrote
ExportSave(r, libs) ==
    /\ pc[r] = "x_save"
    /\ \E o \in libs :
        IF o.kind = "raises"
        THEN Raise(r, o, "save")
        ELSE /\ bio' = [bio EXCEPT ![r] =
                    [data |-> Serialize(prs[r]), pos |-> Len(Serialize(prs[r]))]]
             /\ pc' = [pc EXCEPT ![r] = "x_seek"]
             /\ UNCHANGED <<exc, obs, deck, prs>>
    /\ UNCHANGED <<endpoint, response, result, seen>>

\* a variant of ExportSeek without bio.seek(0)
ExportSeek_NoSeek(r) ==
    /\ pc[r] = "x_seek"
    /\ obs' = [obs EXCEPT ![r].lib = [kind |-> "ok"]]
    /\ pc' = [pc EXCEPT ![r] = "x_return"]
    /\ UNCHANGED <<endpoint, response, exc, deck, prs, bio, result, seen>>

\* lines 194-195: bio.seek(0); return bio
ExportSeek(r) ==
    /\ pc[r] = "x_seek"
    /\ bio' = [bio EXCEPT ![r].pos = 0]
    /\ obs' = [obs EXCEPT ![r].lib = [kind |-> "ok"]]
    /\ pc' = [pc EXCEPT ![r] = "x_return"]
    /\ UNCHANGED <<endpoint, response, exc, deck, prs, result, seen>>

\* StreamingResponse(bio, media_type=..., headers=...): the body is what
\* is read from the buffer, from its position on
Streaming(b) ==
    [status |-> 200,
     media_type |-> PPTX_MEDIA_TYPE,
     headers |-> ("Content-Disposition" :> ("attachment; filename=" \o PPTX_FILENAME)),
     stream |-> ReadFrom(b)]

\* lines 201-206
ExportReturn(r) ==
    /\ pc[r] = "x_return"
    /\ result' = [result EXCEPT ![r] = Streaming(bio[r])]
    /\ pc' = [pc EXCEPT ![r] = "done"]
    /\ UNCHANGED <<endpoint, obs, response, exc, deck, prs, bio, seen>>

\* lines 207-208: except Exception as e
ExportExcept(r) ==
    /\ pc[r] = "x_except"
    /\ IF IsInstance(exc[r], "Exception")
       THEN result' = [result EXCEPT ![r] = JsonError(exc[r])]
       ELSE result' = [result EXCEPT ![r] = [status |-> 500, raised |-> exc[r]]]
    /\ pc' = [pc EXCEPT ![r] = "done"]
    /\ UNCHANGED <<endpoint, obs, response, exc, deck, prs, bio, seen>>

----------------------------------------------------------------------------
(* The server: MaxRequests requests, interleaved step by step. *)

Next ==
    \E r \in Requests :
        \/ \E route \in Routes : Dispatch(r, route)
        \/ ReadRoot(r)
        \/ Hello(r)
        \/ TestInit(r)
        \/ TestImport(r, ServerImports)
        \/ TestName(r, ServerNames)
        \/ TestList(r, ServerLists)
        \/ TestInnerExcept(r)
        \/ TestExcept(r)
        \/ TestEnvUrl(r, ServerEnv)
        \/ TestEnvName(r, ServerEnv)
        \/ ExportBuild(r, build_deck_content, ServerLibs)
        \/ ExportTitleSlide(r, ServerLibs)
        \/ ExportContentSlides(r, ServerLibs)
        \/ ExportSave(r, ServerLibs)
        \/ ExportSeek(r)
        \/ ExportReturn(r)
        \/ ExportExcept(r)

Spec == Init /\ [][Next]_vars

----------------------------------------------------------------------------
(* The exporter running alone, over a bounded set of outlines. *)

\* k items named after what they are
Items(name, k) == [i \in 1..k |-> name \o ToString(i)]

\* absent, or a list of 0, 1 or MaxItems items
ItemChoices(key, name) ==
    {<<>>} \cup {<<[key |-> key, items |-> Items(name, k)]>> : k \in {0, 1, MaxItems}}

\* a dict with the given entries
RECURSIVE DictOf(_)
DictOf(entries) ==
    IF entries = <<>> THEN <<>>
    ELSE (Head(entries).key :> Head(entries).items) @@ DictOf(Tail(entries))

\* the records of an outline after its first: with points, a flow, both or
\* neither, each of them possibly empty, and one record without a title
Sections ==
    {("title" :> "Section") @@ DictOf(p \o f) :
        p \in ItemChoices("points", "point"), f \in ItemChoices("flow", "step")}
    \cup {("points" :> Items("point", 1))}

Firsts == {[type |-> "title", title |-> "Deck", subtitle |-> "Sub"], [type |-> "title"]}

Outlines ==
    {<<>>, build_deck_content}
    \cup {<<f>> \o s : f \in Firsts, s \in UNION {[1..n -> Sections] : n \in 0..MaxSections}}

DeckLibs == LibOutcomes({"", "save failed"})

DeckNext ==
    \/ Dispatch(1, "export")
    \/ \E d \in Outlines : ExportBuild(1, d, DeckLibs)
    \/ ExportTitleSlide(1, DeckLibs)
    \/ ExportContentSlides(1, DeckLibs)
    \/ ExportSave(1, DeckLibs)
    \/ ExportSeek(1)
    \/ ExportReturn(1)
    \/ ExportExcept(1)

DeckSpec == Init /\ [][DeckNext]_vars

----------------------------------------------------------------------------
(* Claims about the probe, checked under ProbeSpec. *)

ResponseFields == {"backend", "database", "database_url", "database_name",
                   "connection_status", "collections"}

\* request r has run test_database to its end
ProbeDone(r) == endpoint[r] = "test" /\ pc[r] = "done"

\* what r read while it ran
ImportRaised(r) == obs[r].import.kind = "raises"
NameRaised(r) == obs[r].name.kind = "raises"
ListRaised(r) == obs[r].list.kind \in {"raises", "unsliceable"}

\* C1: GET /test never raises and never stops halfway: whatever the import,
\* the handle and the environment do, it ends with status 200 and a body of
\* exactly the six fields, with at most 10 collection names.
C1_ProbeAlwaysAnswers ==
    /\ pc[1] # "done" => ENABLED ProbeNext
    /\ \A r \in Requests : ProbeDone(r) =>
        /\ result[r].status = 200
        /\ DOMAIN result[r] = {"status", "json"}
        /\ DOMAIN result[r].json = ResponseFields
        /\ result[r].json.backend = BACKEND_RUNNING
        /\ Len(result[r].json.collections) <= SliceLimit

\* C1's case: a listing of more than 10 names was read and cut to 10
C1_Witness ==
    \E r \in Requests :
        /\ ProbeDone(r)
        /\ obs[r].list.kind = "ok"
        /\ Len(obs[r].list.names) > SliceLimit
        /\ Len(result[r].json.collections) = SliceLimit

\* C3 as claimed: database_url is the "Set" text exactly when DATABASE_URL is
\* set, to any string value, and the "Not Set" text when it is unset, and
\* likewise database_name for DATABASE_NAME.
C3_FlagsFollowPresence ==
    \A r \in Requests : ProbeDone(r) =>
        /\ result[r].json.database_url =
             (IF obs[r].url.value.isNone THEN ENV_NOT_SET ELSE ENV_SET)
        /\ result[r].json.database_name =
             (IF obs[r].dbname.value.isNone THEN ENV_NOT_SET ELSE ENV_SET)

\* C4: when the import raises ImportError, the database field contains
\* "not found", connection_status is "Not Connected" and collections is empty.
C4_ModuleNotFound ==
    \A r \in Requests :
        (ProbeDone(r) /\ ImportRaised(r) /\ IsInstance(obs[r].import.exc, "ImportError")) =>
            /\ Contains(result[r].json.database, "not found")
            /\ result[r].json.connection_status = NOT_CONNECTED
            /\ result[r].json.collections = <<>>

\* C4's case: the import raised ModuleNotFoundError and the probe answered
C4_Witness ==
    \E r \in Requests :
        /\ ProbeDone(r)
        /\ ImportRaised(r)
        /\ obs[r].import.exc.cls = "ModuleNotFoundError"
        /\ result[r].json.database = DB_NOT_FOUND

\* the response reports the database as unavailable
ReportsUnavailable(body) ==
    /\ body.connection_status = NOT_CONNECTED
    /\ StartsWith(body.database, NO_MARK)

\* C5 as claimed: whenever the import, the reading of the name or the
\* listing raises, the response reports the database as unavailable.
C5_FailsClosedOnAnyError ==
    \A r \in Requests :
        (ProbeDone(r) /\ (ImportRaised(r) \/ NameRaised(r) \/ ListRaised(r))) =>
            ReportsUnavailable(result[r].json)

\* C5 as amended: the probe reports the database as unavailable when the
\* import or the reading of the handle's name raises; when the listing
\* raises it reports a partial success instead: connection_status stays
\* "Connected", the database field is the "Connected but Error" text, never
\* the "Connected & Working" one, and collections is empty.
C5_FailsClosedBeforeListing ==
    \A r \in Requests : ProbeDone(r) =>
        /\ (ImportRaised(r) \/ NameRaised(r)) =>
              /\ ReportsUnavailable(result[r].json)
              /\ result[r].json.collections = <<>>
        /\ ListRaised(r) =>
              /\ result[r].json.connection_status = CONNECTED
              /\ StartsWith(result[r].json.database, DB_CONNECTED_ERROR)
              /\ result[r].json.database # DB_WORKING
              /\ result[r].json.collections = <<>>

\* C5's case: the handle was there and reading its name raised
C5_Witness ==
    \E r \in Requests :
        /\ ProbeDone(r)
        /\ NameRaised(r)
        /\ result[r].json.connection_status = NOT_CONNECTED

\* C6: when the listing, or slicing it, raises, GET /test still answers 200,
\* with the database field the "Connected but Error: " text followed by the
\* first 50 characters of the exception's message, and collections empty.
C6_ListingErrorIsReported ==
    \A r \in Requests : (ProbeDone(r) /\ ListRaised(r)) =>
        /\ result[r].status = 200
        /\ result[r].json.database =
              DB_CONNECTED_ERROR \o Slice(obs[r].list.exc.msg, MsgLimit)
        /\ Len(result[r].json.database) <= Len(DB_CONNECTED_ERROR) + MsgLimit
        /\ result[r].json.collections = <<>>

\* C6's case: the listing raised with a message of more than 50 characters
C6_Witness ==
    \E r \in Requests :
        /\ ProbeDone(r)
        /\ obs[r].list.kind = "raises"
        /\ Len(obs[r].list.exc.msg) > MsgLimit
        /\ Len(result[r].json.database) = Len(DB_CONNECTED_ERROR) + MsgLimit

----------------------------------------------------------------------------
(* Claims about the exporter, checked under DeckSpec. *)

\* request r has run export_pptx to its end and was answered with the file
Exported(r) == endpoint[r] = "export" /\ pc[r] = "done" /\ result[r].status = 200

\* the slides a reader finds in the answer to r
Document(r) == Parse(result[r].stream)

\* the records of an outline after its first
NonTitle(d) == {i \in 1..Len(d) : Get(d[i], "type", "") # "title"}

\* the bullets and the steps of a record, empty when it has none
PointsOf(section) == Get(section, "points", <<>>)
FlowOf(section) == Get(section, "flow", <<>>)

\* C7: an export that succeeds on an outline of n records yields n slides:
\* a title slide with the first record's title and subtitle, then one
\* content slide per later record, in order, with that record's title; for
\* the fixed outline that is 1 + the number of its non-title records.
C7_OneSlidePerRecord ==
    \A r \in Requests : Exported(r) =>
        LET d == deck[r]
            doc == Document(r)
        IN  /\ Len(d) >= 1
            /\ Len(doc) = Len(d)
            /\ doc[1].layout = TitleLayout
            /\ doc[1].title = Get(d[1], "title", DEFAULT_TITLE)
            /\ doc[1].subtitle = Get(d[1], "subtitle", DEFAULT_SUBTITLE)
            /\ \A i \in 2..Len(d) :
                /\ doc[i].layout = ContentLayout
                /\ doc[i].title = Get(d[i], "title", "")
            /\ d = build_deck_content => Len(doc) = 1 + Cardinality(NonTitle(d))

\* C7's case: the fixed outline was exported, as a title slide and 12 more
C7_Witness ==
    \E r \in Requests :
        /\ Exported(r)
        /\ deck[r] = build_deck_content
        /\ Len(Document(r)) = 13
        /\ Document(r)[1].title = "AI Study Bot"
        /\ Document(r)[13].title = "Conclusion"

\* C8: the body of a flow record with steps s1..sk, k >= 1, has k
\* paragraphs in step order; each but the last is the step followed by the
\* arrow, and the last is the step alone.
C8_FlowParagraphs ==
    \A r \in Requests : Exported(r) =>
        \A i \in 2..Len(deck[r]) :
            LET flow == FlowOf(deck[r][i])
                body == Document(r)[i].body
            IN  (Len(flow) >= 1 /\ Len(PointsOf(deck[r][i])) = 0) =>
                    /\ Len(body) = Len(flow)
                    /\ \A j \in 1..Len(flow) :
                        body[j].text = IF j < Len(flow) THEN flow[j] \o ARROW ELSE flow[j]

\* C8's case: a flow of two or more steps was rendered
C8_Witness ==
    \E r \in Requests :
        /\ Exported(r)
        /\ \E i \in 2..Len(deck[r]) :
            LET flow == FlowOf(deck[r][i])
                body == Document(r)[i].body
            IN  /\ Len(flow) >= 2
                /\ Len(PointsOf(deck[r][i])) = 0
                /\ body[1].text = flow[1] \o ARROW
                /\ body[Len(flow)].text = flow[Len(flow)]

\* the first record is the Title record and every later record has exactly
\* one of a bullet list and a flow
WellShaped(d) ==
    /\ Len(d) >= 1
    /\ Get(d[1], "type", "") = "title"
    /\ \A i \in 2..Len(d) :
        /\ Get(d[i], "type", "") # "title"
        /\ (Len(PointsOf(d[i])) > 0) # (Len(FlowOf(d[i])) > 0)

\* C9: the outline of build_deck_content is well shaped, and the exporter
\* renders the body of any record from exactly one of its two lists: from
\* the bullets, one paragraph per bullet, when the record has bullets,
\* whether or not it has a flow too, and from the flow only when it has no
\* bullets.
C9_BulletsBeforeFlow ==
    /\ \A r \in Requests : deck[r] = build_deck_content => WellShaped(deck[r])
    /\ \A r \in Requests : Exported(r) =>
        \A i \in 2..Len(deck[r]) :
            LET points == PointsOf(deck[r][i])
                flow == FlowOf(deck[r][i])
                body == Document(r)[i].body
            IN  /\ Len(points) > 0 =>
                    /\ Len(body) = Len(points)
                    /\ \A j \in 1..Len(points) : body[j].text = points[j]
                /\ (Len(points) = 0 /\ Len(flow) > 0) =>
                    /\ Len(body) = Len(flow)
                    /\ \A j \in 1..Len(flow) :
                        SubSeq(body[j].text, 1, Len(flow[j])) = flow[j]
                /\ (Len(points) = 0 /\ Len(flow) = 0) =>
                    body = <<[text |-> "", level |-> 0]>>

\* C9's case: a record with bullets and a flow of another length was
\* rendered from its bullets
C9_Witness ==
    \E r \in Requests :
        /\ Exported(r)
        /\ \E i \in 2..Len(deck[r]) :
            LET points == PointsOf(deck[r][i])
                flow == FlowOf(deck[r][i])
                body == Document(r)[i].body
            IN  /\ Len(points) > 0
                /\ Len(flow) > 0
                /\ Len(flow) # Len(points)
                /\ Len(body) = Len(points)
                /\ body[1].text = points[1]

----------------------------------------------------------------------------
(* Claims about the server, checked under Spec. *)

\* The answer of each handler as a function of what the request read: the
\* handlers have no other input.

ExpectedDatabase(o) ==
    IF o.import.kind = "raises"
    THEN IF o.import.exc.cls \in {"ImportError", "ModuleNotFoundError"}
         THEN DB_NOT_FOUND
         ELSE DB_ERROR \o Slice(o.import.exc.msg, MsgLimit)
    ELSE IF o.import.db = "None" THEN DB_NOT_INITIALIZED
    ELSE IF o.name.kind = "raises" THEN DB_ERROR \o Slice(o.name.exc.msg, MsgLimit)
    ELSE IF o.list.kind = "ok" THEN DB_WORKING
    ELSE DB_CONNECTED_ERROR \o Slice(o.list.exc.msg, MsgLimit)

ExpectedProbe(o) ==
    [status |-> 200,
     json |-> [backend |-> BACKEND_RUNNING,
               database |-> ExpectedDatabase(o),
               database_url |-> IF ~o.url.value.isNone /\ o.url.value.val # ""
                                THEN ENV_SET ELSE ENV_NOT_SET,
               database_name |-> IF ~o.dbname.value.isNone /\ o.dbname.value.val # ""
                                 THEN ENV_SET ELSE ENV_NOT_SET,
               connection_status |-> IF o.name.kind \in {"absent", "value"}
                                     THEN CONNECTED ELSE NOT_CONNECTED,
               collections |-> IF o.list.kind = "ok"
                               THEN [i \in 1..Min(SliceLimit, Len(o.list.names)) |->
                                        o.list.names[i]]
                               ELSE <<>>]]

ExpectedBody(section) ==
    LET points == PointsOf(section)
        flow == FlowOf(section)
    IN  IF Len(points) > 0
        THEN [j \in 1..Len(points) |-> [text |-> points[j], level |-> 0]]
        ELSE IF Len(flow) > 0
        THEN [j \in 1..Len(flow) |->
                [text |-> IF j < Len(flow) THEN flow[j] \o ARROW ELSE flow[j], level |-> 0]]
        ELSE <<[text |-> "", level |-> 0]>>

\* the whole package of outline d
ExpectedBytes(d) ==
    [i \in 1..(Len(d) + 1) |->
        IF i = 1 THEN [part |-> "presentation", slides |-> Len(d)]
        ELSE IF i = 2
        THEN [part |-> "slide",
              slide |-> [layout |-> TitleLayout,
                         title |-> Get(d[1], "title", DEFAULT_TITLE),
                         subtitle |-> Get(d[1], "subtitle", DEFAULT_SUBTITLE)]]
        ELSE [part |-> "slide",
              slide |-> [layout |-> ContentLayout,
                         title |-> Get(d[i - 1], "title", ""),
                         body |-> ExpectedBody(d[i - 1])]]]

ExpectedExport(o) ==
    IF o.lib.kind = "ok"
    THEN [status |-> 200,
          media_type |-> PPTX_MEDIA_TYPE,
          headers |-> ("Content-Disposition" :> ("attachment; filename=" \o PPTX_FILENAME)),
          stream |-> ExpectedBytes(build_deck_content)]
    ELSE [status |-> 500, json |-> [error |-> o.lib.exc.msg]]

Expected(r) ==
    CASE endpoint[r] = "root" -> [status |-> 200, json |-> [message |-> MSG_ROOT]]
      [] endpoint[r] = "hello" -> [status |-> 200, json |-> [message |-> MSG_HELLO]]
      [] endpoint[r] = "test" -> ExpectedProbe(obs[r])
      [] endpoint[r] = "export" -> ExpectedExport(obs[r])

\* C2: an export in which the library raises is answered with status 500
\* and a JSON body whose error field is the raised message, and with no
\* bytes of a presentation; and a request dispatched after such failures, to
\* whichever route, is answered as it would have been without them.
C2_ExportFailureIsContained ==
    \A r \in Requests : pc[r] = "done" =>
        /\ (endpoint[r] = "export" /\ obs[r].lib.kind = "raises") =>
              /\ result[r].status = 500
              /\ DOMAIN result[r] = {"status", "json"}
              /\ result[r].json = [error |-> obs[r].lib.exc.msg]
        /\ seen[r] => result[r] = Expected(r)

\* C2's case: an export failed in save, and an export dispatched after a
\* failure was answered with the whole file
C2_Witness ==
    /\ \E q \in Requests : FailedExport(q) /\ obs[q].lib.call = "save"
    /\ \E r \in Requests :
        /\ Exported(r)
        /\ seen[r]
        /\ Len(Document(r)) = Len(build_deck_content)

\* C10: under every interleaving, the answer to a request is a function of
\* what that request itself read; and every export that is about to answer
\* holds a buffer of its own with the whole document, positioned at the
\* start.
C10_RequestsAreIndependent ==
    \A r \in Requests :
        /\ pc[r] = "done" => result[r] = Expected(r)
        /\ pc[r] = "x_return" =>
              bio[r] = [data |-> ExpectedBytes(build_deck_content), pos |-> 0]

\* C10's case: two exports in flight at once, each with a buffer of its
\* own: one rewound and about to answer, the other just saved and still
\* positioned at its end
C10_Witness ==
    \E r, q \in Requests :
        /\ r # q
        /\ pc[r] = "x_return" /\ bio[r].pos = 0
        /\ pc[q] = "x_seek" /\ bio[q].pos = Len(bio[q].data)
        /\ Len(bio[q].data) = Len(bio[r].data)

====
